---- MODULE Spec2Model ----
(***************************************************************************)
(* A model of src/piper.py: the JenkinsPipeline client.  One instance     *)
(* (its two caches, its TTL and its last-updated stamp), the wall clock,  *)
(* and one caller that invokes the instance's properties and methods.     *)
(* The remote server is the environment: every GET and POST is answered   *)
(* by a response drawn from a bounded set of responses.                   *)
(*                                                                         *)
(* A read of the `state` property is one step: the staleness test, the    *)
(* polling loop over the jobs and the replacement of the cache            *)
(* (lines 105-131).  Properties that read `state` more than once          *)
(* (is_waiting_manual_trigger, next_step, trigger_manual_step) take one   *)
(* step per read, and the clock may advance between the steps.            *)
(*                                                                         *)
(* Two further specifications follow one read of `state` line by line,    *)
(* each GET being a step and the answers got being kept: PollSpec with    *)
(* one thread, and RaceSpec with two threads that share the instance      *)
(* without a lock.                                                         *)
(***************************************************************************)
EXTENDS Integers, Sequences, FiniteSets, TLC

\* ------------------------------------------------------------- bounds
\* The longest job list a pipeline definition holds.
MaxJobs == 3
\* The clock runs from 0 to MaxTime.
MaxTime == 2
\* max_state_cache is drawn from 0..MaxTTL.
MaxTTL == 1

\* ---------------------------------------------------------- constants
\* datetime(1983,9,2): the initial state_last_updated, long before time 0.
Epoch1983 == -1000

\* ------------------------------------------------------------ domains
None == "None"
Results == {"SUCCESS", "FAILURE"}
\* Build start times the remote may report: an older and a newer one.
Timestamps == {1, 2}
\* Status codes the remote may answer a last-build GET with.
Statuses == {199, 200, 399, 400, 404}

\* int(x) of lines 119 and 125, on the integer timestamps of the remote API.
ToInt(x) == x

\* A variant of line 115 without its lower bound.
StatusStops_NoLowerBound(status) == status >= 400

\* Line 115: the status that ends the polling loop.
StatusStops(status) == 200 > status \/ status >= 400

\* A last-build response: a transport or parse failure (raises), a status
\* the loop stops on (its body is never parsed), or a parsed build record.
OkResponses ==
    [raises : {FALSE}, status : {s \in Statuses : ~(200 > s \/ s >= 400)},
     timestamp : Timestamps, result : Results]
StopResponses ==
    [raises : {FALSE}, status : {s \in Statuses : 200 > s \/ s >= 400},
     timestamp : {0}, result : {None}]
RaiseResponses ==
    [raises : {TRUE}, status : {0}, timestamp : {0}, result : {None}]
Responses == OkResponses \cup StopResponses \cup RaiseResponses

\* What the remote would answer for each of n jobs during one polling
\* cycle: script[i] is its answer to a GET of the i-th job's last build.
Scripts(n) == [1..n -> Responses]
ScriptsByLen == [n \in 0..MaxJobs |-> Scripts(n)]

\* The JSON body of the pipeline definition: a dict, maybe empty, maybe
\* without a 'jobs' key.  A job is named by its url, 1..n in pipeline order.
JobList(n) == [i \in 1..n |-> i]
EmptyDict == [nonempty |-> FALSE, hasJobs |-> FALSE, jobs |-> <<>>]
Dicts ==
    {EmptyDict, [nonempty |-> TRUE, hasJobs |-> FALSE, jobs |-> <<>>]}
    \cup {[nonempty |-> TRUE, hasJobs |-> TRUE, jobs |-> JobList(n)] : n \in 0..MaxJobs}
\* The answer to a definition GET: a dict, or a transport/parse failure.
DefResponses ==
    {[raises |-> FALSE, dict |-> d] : d \in Dicts}
    \cup {[raises |-> TRUE, dict |-> EmptyDict]}

\* ------------------------------------------------------------- state
VARIABLES
    pipeline,            \* self._pipeline: the cached definition (line 14)
    state,               \* self._state: the cached run records (line 16)
    state_last_updated,  \* self.state_last_updated (line 17)
    max_state_cache,     \* self.max_state_cache, the TTL (line 15)
    now,                 \* datetime.now()
    op,                  \* the property or method the caller is running
    pc,                  \* where in it: the next read it makes
    ret,                 \* what the finished call returned
    outcome,             \* "ok", or the exception the call ended in
    net,                 \* the network calls of the latest step
    posts,               \* the urls POSTed to by the running call, in order
    readers              \* threads inside the `state` property, line by line

vars == <<pipeline, state, state_last_updated, max_state_cache, now,
          op, pc, ret, outcome, net, posts, readers>>

NoRet == [kind |-> "none", val |-> None]
NoNet == [stale |-> FALSE, rebuilt |-> FALSE, gets |-> <<>>, stopAt |-> 0, defGets |-> 0]
NoDef == [raises |-> FALSE, dict |-> EmptyDict]

Last(s) == s[Len(s)]

\* ---------------------------------------------------- pure functions
\* Line 84: pipeline_data.get('jobs', []).
JobsOf(p) == IF p.hasJobs THEN p.jobs ELSE <<>>

\* Lines 69-74: the `pipeline` property.  An empty dict is falsy, so an
\* empty answer is fetched again by the next read.
PipelineGet(p, resp) ==
    IF p.nonempty THEN [pipeline |-> p, raised |-> FALSE, defGets |-> 0]
    ELSE IF resp.raises THEN [pipeline |-> p, raised |-> TRUE, defGets |-> 1]
    ELSE [pipeline |-> resp.dict, raised |-> FALSE, defGets |-> 1]

\* A variant of line 94 with the comparison the wrong way round.
IsStateStale_Reversed(st, last, t, ttl) == st = <<>> \/ t - last < ttl

\* Line 94: is_state_stale.
IsStateStale(st, last, t, ttl) == st = <<>> \/ t - last > ttl

\* A variant of line 125 that appends every parsed record.
KeepsOrder_Always(timestamp, last_job_time) == TRUE

\* A variant of line 125 with a strict comparison.
KeepsOrder_Strict(timestamp, last_job_time) == ToInt(timestamp) > last_job_time

\* Line 125: the monotonic-timestamp guard.
KeepsOrder(timestamp, last_job_time) == ToInt(timestamp) >= last_job_time

\* A variant of lines 110-126 whose line 116 is `continue`: the loop skips
\* the job with the out-of-range status and goes on to the next.
RECURSIVE PollLoop_Continue(_, _, _, _, _)
PollLoop_Continue(jobs, script, i, job_data, gets) ==
    IF i > Len(jobs)
    THEN [job_data |-> job_data, gets |-> gets, stopAt |-> 0, raised |-> FALSE]
    ELSE LET job == jobs[i]
             response == script[i]
             asked == Append(gets, job)
             rest == PollLoop_Continue(jobs, script, i + 1, job_data, asked)
         IN  IF response.raises
             THEN [job_data |-> job_data, gets |-> asked, stopAt |-> 0, raised |-> TRUE]
             ELSE IF 200 > response.status \/ response.status >= 400
             THEN [rest EXCEPT !.stopAt = i]
             ELSE LET last_job_time ==
                          IF job_data = <<>> THEN 0
                          ELSE job_data[Len(job_data)].timestamp
                      record == [job |-> job, timestamp |-> response.timestamp,
                                 result |-> response.result]
                  IN  PollLoop_Continue(jobs, script, i + 1,
                                        IF record.timestamp >= last_job_time
                                        THEN Append(job_data, record) ELSE job_data,
                                        asked)

\* Lines 110-126: the polling loop from the i-th job on.  `gets` logs the
\* jobs whose last build was requested, and stopAt is the position of the
\* job whose status ended the loop (line 116), 0 when none did.
RECURSIVE PollLoop(_, _, _, _, _)
PollLoop(jobs, script, i, job_data, gets) ==
    IF i > Len(jobs)
    THEN [job_data |-> job_data, gets |-> gets, stopAt |-> 0, raised |-> FALSE]
    ELSE LET job == jobs[i]
             response == script[i]
             asked == Append(gets, job)
         IN  IF response.raises
             THEN [job_data |-> job_data, gets |-> asked, stopAt |-> 0, raised |-> TRUE]
             ELSE IF StatusStops(response.status)
             THEN [job_data |-> job_data, gets |-> asked, stopAt |-> i, raised |-> FALSE]
             ELSE LET last_job_time ==
                          IF job_data = <<>> THEN 0 ELSE ToInt(Last(job_data).timestamp)
                      record == [job |-> job, timestamp |-> response.timestamp,
                                 result |-> response.result]
                  IN  PollLoop(jobs, script, i + 1,
                               IF KeepsOrder(record.timestamp, last_job_time)
                               THEN Append(job_data, record) ELSE job_data,
                               asked)

\* Every way the remote can answer one polling cycle over `jobs`
\* (lines 108-126), each with the accumulator and the GETs it leaves.
Polls(jobs) == {PollLoop(jobs, s, 1, <<>>, <<>>) : s \in ScriptsByLen[Len(jobs)]}
PollsByJobs == [jobs \in {JobList(n) : n \in 0..MaxJobs} |-> Polls(jobs)]
NoPoll == [job_data |-> <<>>, gets |-> <<>>, stopAt |-> 0, raised |-> FALSE]

\* A variant of lines 105-131 that returns the sequence it held before the
\* rebuild (line 131 returning a value captured before line 128).
StateGet_ReturnsOld(p, st, last, t, ttl, dresp, poll) ==
    IF ~(st = <<>> \/ t - last > ttl)
    THEN [pipeline |-> p, state |-> st, last |-> last, raised |-> FALSE, value |-> st,
          net |-> [stale |-> FALSE, rebuilt |-> FALSE, gets |-> <<>>,
                   stopAt |-> 0, defGets |-> 0]]
    ELSE LET pg == PipelineGet(p, dresp)
         IN  IF pg.raised \/ poll.raised
             THEN [pipeline |-> IF pg.raised THEN p ELSE pg.pipeline, state |-> st,
                   last |-> last, raised |-> TRUE, value |-> <<>>,
                   net |-> [stale |-> TRUE, rebuilt |-> FALSE,
                            gets |-> IF pg.raised THEN <<>> ELSE poll.gets,
                            stopAt |-> 0, defGets |-> pg.defGets]]
             ELSE [pipeline |-> pg.pipeline, state |-> poll.job_data, last |-> t,
                   raised |-> FALSE, value |-> st,
                   net |-> [stale |-> TRUE, rebuilt |-> TRUE, gets |-> poll.gets,
                            stopAt |-> poll.stopAt, defGets |-> pg.defGets]]

\* A variant of lines 105-131 that accumulates in self._state itself, so
\* that a GET that raises leaves the records polled before it in the cache.
StateGet_StoresPartial(p, st, last, t, ttl, dresp, poll) ==
    IF ~(st = <<>> \/ t - last > ttl)
    THEN [pipeline |-> p, state |-> st, last |-> last, raised |-> FALSE, value |-> st,
          net |-> [stale |-> FALSE, rebuilt |-> FALSE, gets |-> <<>>,
                   stopAt |-> 0, defGets |-> 0]]
    ELSE LET pg == PipelineGet(p, dresp)
         IN  IF pg.raised
             THEN [pipeline |-> p, state |-> st, last |-> last, raised |-> TRUE,
                   value |-> <<>>,
                   net |-> [stale |-> TRUE, rebuilt |-> FALSE, gets |-> <<>>,
                            stopAt |-> 0, defGets |-> pg.defGets]]
             ELSE IF poll.raised
             THEN [pipeline |-> pg.pipeline, state |-> poll.job_data, last |-> last,
                   raised |-> TRUE, value |-> <<>>,
                   net |-> [stale |-> TRUE, rebuilt |-> FALSE, gets |-> poll.gets,
                            stopAt |-> 0, defGets |-> pg.defGets]]
             ELSE [pipeline |-> pg.pipeline, state |-> poll.job_data, last |-> t,
                   raised |-> FALSE, value |-> poll.job_data,
                   net |-> [stale |-> TRUE, rebuilt |-> TRUE, gets |-> poll.gets,
                            stopAt |-> poll.stopAt, defGets |-> pg.defGets]]

\* Lines 105-131: the `state` property at time t, on the instance
\* (p, st, last, ttl), with the remote answering the definition GET by
\* dresp and the polling cycle going as `poll`.
StateGet(p, st, last, t, ttl, dresp, poll) ==
    IF ~IsStateStale(st, last, t, ttl)
    THEN [pipeline |-> p, state |-> st, last |-> last, raised |-> FALSE, value |-> st,
          net |-> [stale |-> FALSE, rebuilt |-> FALSE, gets |-> <<>>,
                   stopAt |-> 0, defGets |-> 0]]
    ELSE LET pg == PipelineGet(p, dresp)
         IN  IF pg.raised
             THEN [pipeline |-> p, state |-> st, last |-> last, raised |-> TRUE,
                   value |-> <<>>,
                   net |-> [stale |-> TRUE, rebuilt |-> FALSE, gets |-> <<>>,
                            stopAt |-> 0, defGets |-> pg.defGets]]
             ELSE IF poll.raised
             THEN [pipeline |-> pg.pipeline, state |-> st, last |-> last,
                   raised |-> TRUE, value |-> <<>>,
                   net |-> [stale |-> TRUE, rebuilt |-> FALSE, gets |-> poll.gets,
                            stopAt |-> 0, defGets |-> pg.defGets]]
             ELSE [pipeline |-> pg.pipeline, state |-> poll.job_data, last |-> t,
                   raised |-> FALSE, value |-> poll.job_data,
                   net |-> [stale |-> TRUE, rebuilt |-> TRUE, gets |-> poll.gets,
                            stopAt |-> poll.stopAt, defGets |-> pg.defGets]]

\* A variant of lines 152-157 with line 154's test of the result inverted.
IsCompleteOn_InvertedResult(st, jobs) ==
    IF Len(st) /= Len(jobs) THEN [outcome |-> "ok", val |-> FALSE]
    ELSE IF st = <<>> THEN [outcome |-> "IndexError", val |-> FALSE]
    ELSE IF st[Len(st)].result = "SUCCESS" THEN [outcome |-> "ok", val |-> FALSE]
    ELSE [outcome |-> "ok", val |-> TRUE]

\* Lines 152-157: is_complete on the state read and the job list:
\* state[-1] of an empty state raises IndexError.
IsCompleteOn(st, jobs) ==
    IF Len(st) /= Len(jobs) THEN [outcome |-> "ok", val |-> FALSE]
    ELSE IF st = <<>> THEN [outcome |-> "IndexError", val |-> FALSE]
    ELSE IF Last(st).result /= "SUCCESS" THEN [outcome |-> "ok", val |-> FALSE]
    ELSE [outcome |-> "ok", val |-> TRUE]

\* A variant of lines 140-143 that returns a record with no result, not
\* None, for an empty state.
LatestOf_BlankRecord(st) ==
    IF st = <<>>
    THEN [kind |-> "record", val |-> [job |-> 0, timestamp |-> 0, result |-> None]]
    ELSE [kind |-> "record", val |-> Last(st)]

\* Lines 140-143: latest_step on the state read.
LatestOf(st) == IF st = <<>> THEN NoRet ELSE [kind |-> "record", val |-> Last(st)]

\* A variant of line 176 that indexes one short: self.jobs[len(self.state) - 1].
JobAt_OneShort(jobs, st) ==
    IF Len(st) - 1 < Len(jobs) THEN [kind |-> "job", val |-> jobs[Len(st)]] ELSE NoRet

\* Lines 175-178: self.jobs[len(self.state)], None on IndexError.
JobAt(jobs, st) ==
    IF Len(st) < Len(jobs) THEN [kind |-> "job", val |-> jobs[Len(st) + 1]] ELSE NoRet

\* ------------------------------------------------- the remote's answers
\* The definition responses a read may consume: none when the definition
\* is cached or not asked for.
DefChoices(p, asked) == IF asked /\ ~p.nonempty THEN DefResponses ELSE {NoDef}
\* The polling cycles a read may run: none when it does not poll.
PollChoices(jobs, asked) == IF asked THEN PollsByJobs[jobs] ELSE {NoPoll}

\* Every way the remote can answer one read of `state` now.
StateReads(p, st, last) ==
    LET stale == IsStateStale(st, last, now, max_state_cache)
    IN  UNION {{StateGet(p, st, last, now, max_state_cache, d, poll) :
                  poll \in PollChoices(JobsOf(PipelineGet(p, d).pipeline),
                                       stale /\ ~PipelineGet(p, d).raised)} :
               d \in DefChoices(p, stale)}

\* Every way one evaluation of is_complete can go now (lines 152-157): the
\* read of `state`, then the read of `jobs`, then the comparison.
IsCompleteResults(p, st, last) ==
    UNION {IF r.raised
           THEN {[pipeline |-> r.pipeline, state |-> r.state, last |-> r.last,
                  net |-> r.net, outcome |-> "TransportError", val |-> FALSE]}
           ELSE {LET pg == PipelineGet(r.pipeline, d)
                     c == IsCompleteOn(r.value, JobsOf(pg.pipeline))
                 IN  [pipeline |-> pg.pipeline, state |-> r.state, last |-> r.last,
                      net |-> [r.net EXCEPT !.defGets = @ + pg.defGets],
                      outcome |-> IF pg.raised THEN "TransportError" ELSE c.outcome,
                      val |-> c.val] :
                 d \in DefChoices(r.pipeline, TRUE)} :
           r \in StateReads(p, st, last)}

\* Every way self.jobs[len(self.state)] can go now (lines 175-178): the
\* read of `jobs` first, then the read of `state`, then the index.
JobAtResults(p, st, last) ==
    UNION {LET pg == PipelineGet(p, d)
           IN  IF pg.raised
               THEN {[pipeline |-> p, state |-> st, last |-> last,
                      net |-> [NoNet EXCEPT !.defGets = pg.defGets],
                      outcome |-> "TransportError", job |-> NoRet]}
               ELSE {[pipeline |-> r.pipeline, state |-> r.state, last |-> r.last,
                      net |-> [r.net EXCEPT !.defGets = @ + pg.defGets],
                      outcome |-> IF r.raised THEN "TransportError" ELSE "ok",
                      job |-> IF r.raised THEN NoRet
                              ELSE JobAt(JobsOf(pg.pipeline), r.value)] :
                     r \in StateReads(pg.pipeline, st, last)} :
           d \in DefChoices(p, TRUE)}

\* The answers to a POST: a response, or a transport failure.
PostOutcomes == {"ok", "TransportError"}

\* ------------------------------------------------------------ actions
Ops == {"pipeline", "jobs", "state", "latest_step", "is_complete",
        "is_waiting_manual_trigger", "next_step", "build_job", "run",
        "trigger_manual_step"}

\* The first read each call makes.
Entry(o) ==
    CASE o \in {"is_complete", "is_waiting_manual_trigger", "trigger_manual_step"}
             -> "is_complete"
      [] o = "next_step" -> "next_is_complete"
      [] OTHER -> o

Init ==
    /\ pipeline = EmptyDict
    /\ state = <<>>
    /\ state_last_updated = Epoch1983
    /\ max_state_cache \in 0..MaxTTL
    /\ now = 0
    /\ op = "none"
    /\ pc = "idle"
    /\ ret = NoRet
    /\ outcome = "none"
    /\ net = NoNet
    /\ posts = <<>>
    /\ readers = <<>>

\* The instance after a step, and the step's network calls.
Commit(r) ==
    /\ pipeline' = r.pipeline
    /\ state' = r.state
    /\ state_last_updated' = r.last
    /\ net' = r.net

\* The call returns rv, or ends in the exception o.
Done(o, rv) ==
    /\ pc' = "done"
    /\ outcome' = o
    /\ ret' = IF o = "ok" THEN rv ELSE NoRet

\* The call goes on to its next read.
Goto(l) ==
    /\ pc' = l
    /\ UNCHANGED <<outcome, ret>>

\* Lines 185-187: build_job(job), inside the step that calls it.
\* job['url'] of None raises TypeError before any request is made.
BuildJob(job) ==
    IF job.kind /= "job"
    THEN /\ Done("TypeError", NoRet)
         /\ UNCHANGED posts
    ELSE /\ posts' = Append(posts, job.val)
         /\ \E o \in PostOutcomes : Done(o, [kind |-> "response", val |-> job.val])

\* Time passes, between calls and between the reads of one call.
Tick ==
    /\ pc /= "done"
    /\ now < MaxTime
    /\ now' = now + 1
    /\ UNCHANGED <<pipeline, state, state_last_updated, max_state_cache,
                   op, pc, ret, outcome, net, posts>>
    /\ UNCHANGED readers

\* The caller invokes a property or a method.
Call ==
    /\ pc = "idle"
    /\ \E o \in Ops : op' = o /\ pc' = Entry(o)
    /\ UNCHANGED <<pipeline, state, state_last_updated, max_state_cache, now,
                   ret, outcome, net, posts>>
    /\ UNCHANGED readers

\* The caller takes the result; the next call starts afresh.
Return ==
    /\ pc = "done"
    /\ op' = "none"
    /\ pc' = "idle"
    /\ ret' = NoRet
    /\ outcome' = "none"
    /\ net' = NoNet
    /\ posts' = <<>>
    /\ UNCHANGED <<pipeline, state, state_last_updated, max_state_cache, now>>
    /\ UNCHANGED readers

\* Lines 62-84: the `pipeline` and `jobs` properties.
Jobs ==
    /\ pc \in {"pipeline", "jobs"}
    /\ \E d \in DefChoices(pipeline, TRUE) :
          LET pg == PipelineGet(pipeline, d)
          IN  /\ pipeline' = pg.pipeline
              /\ net' = [NoNet EXCEPT !.defGets = pg.defGets]
              /\ IF pg.raised THEN Done("TransportError", NoRet)
                 ELSE IF pc = "pipeline" THEN Done("ok", [kind |-> "dict", val |-> pg.pipeline])
                 ELSE Done("ok", [kind |-> "jobs", val |-> JobsOf(pg.pipeline)])
    /\ UNCHANGED <<state, state_last_updated, max_state_cache, now, op, posts>>
    /\ UNCHANGED readers

\* Lines 96-131: the `state` property.
State ==
    /\ pc = "state"
    /\ \E r \in StateReads(pipeline, state, state_last_updated) :
          /\ Commit(r)
          /\ IF r.raised THEN Done("TransportError", NoRet)
             ELSE Done("ok", [kind |-> "state", val |-> r.value])
    /\ UNCHANGED <<max_state_cache, now, op, posts>>
    /\ UNCHANGED readers

\* Lines 133-143: latest_step, called by the caller (line 141) or by
\* is_waiting_manual_trigger (line 166: latest_step['result'] raises
\* TypeError on None), itself maybe called by trigger_manual_step (line 206).
LatestStep ==
    /\ pc = "latest_step"
    /\ \E r \in StateReads(pipeline, state, state_last_updated) :
          LET latest == LatestOf(r.value)
              waiting == latest.val.result = "SUCCESS"
          IN  /\ Commit(r)
              /\ IF r.raised THEN Done("TransportError", NoRet) /\ UNCHANGED posts
                 ELSE IF op = "latest_step" THEN Done("ok", latest) /\ UNCHANGED posts
                 ELSE IF latest.kind = "none" THEN Done("TypeError", NoRet) /\ UNCHANGED posts
                 ELSE IF op = "is_waiting_manual_trigger"
                 THEN Done("ok", [kind |-> "bool", val |-> waiting]) /\ UNCHANGED posts
                 ELSE IF waiting THEN Goto("next_is_complete") /\ UNCHANGED posts
                 ELSE Done("ok", NoRet) /\ UNCHANGED posts
    /\ UNCHANGED <<max_state_cache, now, op>>
    /\ UNCHANGED readers

\* Lines 145-157: is_complete, called by the caller, or first thing by
\* is_waiting_manual_trigger (line 166: `not self.is_complete and ...`).
IsComplete ==
    /\ pc = "is_complete"
    /\ \E c \in IsCompleteResults(pipeline, state, state_last_updated) :
          /\ Commit(c)
          /\ IF c.outcome /= "ok" THEN Done(c.outcome, NoRet)
             ELSE IF op = "is_complete" THEN Done("ok", [kind |-> "bool", val |-> c.val])
             ELSE IF ~c.val THEN Goto("latest_step")
             ELSE IF op = "is_waiting_manual_trigger"
             THEN Done("ok", [kind |-> "bool", val |-> FALSE])
             ELSE Done("ok", NoRet)
    /\ UNCHANGED <<max_state_cache, now, op, posts>>
    /\ UNCHANGED readers

\* Line 174: next_step's `if not self.is_complete`; a complete pipeline
\* makes next_step return None, which trigger_manual_step hands to build_job.
NextStepIsComplete ==
    /\ pc = "next_is_complete"
    /\ \E c \in IsCompleteResults(pipeline, state, state_last_updated) :
          /\ Commit(c)
          /\ IF c.outcome /= "ok" THEN Done(c.outcome, NoRet) /\ UNCHANGED posts
             ELSE IF ~c.val THEN Goto("next_index") /\ UNCHANGED posts
             ELSE IF op = "next_step" THEN Done("ok", NoRet) /\ UNCHANGED posts
             ELSE BuildJob(NoRet)
    /\ UNCHANGED <<max_state_cache, now, op>>
    /\ UNCHANGED readers

\* Lines 175-178: next_step's self.jobs[len(self.state)], and line 207:
\* trigger_manual_step's build_job of it.
NextStepIndex ==
    /\ pc = "next_index"
    /\ \E j \in JobAtResults(pipeline, state, state_last_updated) :
          /\ Commit(j)
          /\ IF j.outcome /= "ok" THEN Done(j.outcome, NoRet) /\ UNCHANGED posts
             ELSE IF op = "next_step" THEN Done("ok", j.job) /\ UNCHANGED posts
             ELSE BuildJob(j.job)
    /\ UNCHANGED <<max_state_cache, now, op>>
    /\ UNCHANGED readers

\* Lines 180-187: build_job(job), called by the caller with a job.
CallBuildJob ==
    /\ pc = "build_job"
    /\ \E job \in 1..MaxJobs : BuildJob([kind |-> "job", val |-> job])
    /\ net' = NoNet
    /\ UNCHANGED <<pipeline, state, state_last_updated, max_state_cache, now, op>>
    /\ UNCHANGED readers

\* A variant of line 195 that triggers self.jobs[-1], the last job.
Run_LastJob ==
    /\ pc = "run"
    /\ \E d \in DefChoices(pipeline, TRUE) :
          LET pg == PipelineGet(pipeline, d)
              jobs == JobsOf(pg.pipeline)
          IN  /\ pipeline' = pg.pipeline
              /\ net' = [NoNet EXCEPT !.defGets = pg.defGets]
              /\ IF pg.raised THEN Done("TransportError", NoRet) /\ UNCHANGED posts
                 ELSE IF jobs = <<>> THEN Done("IndexError", NoRet) /\ UNCHANGED posts
                 ELSE BuildJob([kind |-> "job", val |-> jobs[Len(jobs)]])
    /\ UNCHANGED <<state, state_last_updated, max_state_cache, now, op>>
    /\ UNCHANGED readers

\* A variant of line 195 that empties the state cache, as the docstring
\* of lines 190-193 ("the state will be reset") could be read.
Run_ResetsState ==
    /\ pc = "run"
    /\ \E d \in DefChoices(pipeline, TRUE) :
          LET pg == PipelineGet(pipeline, d)
              jobs == JobsOf(pg.pipeline)
          IN  /\ pipeline' = pg.pipeline
              /\ net' = [NoNet EXCEPT !.defGets = pg.defGets]
              /\ IF pg.raised THEN Done("TransportError", NoRet) /\ UNCHANGED posts
                 ELSE IF jobs = <<>> THEN Done("IndexError", NoRet) /\ UNCHANGED posts
                 ELSE BuildJob([kind |-> "job", val |-> jobs[1]])
    /\ state' = <<>>
    /\ UNCHANGED <<state_last_updated, max_state_cache, now, op>>
    /\ UNCHANGED readers

\* Lines 189-195: run(): self.jobs[0] raises IndexError on an empty list.
Run ==
    /\ pc = "run"
    /\ \E d \in DefChoices(pipeline, TRUE) :
          LET pg == PipelineGet(pipeline, d)
              jobs == JobsOf(pg.pipeline)
          IN  /\ pipeline' = pg.pipeline
              /\ net' = [NoNet EXCEPT !.defGets = pg.defGets]
              /\ IF pg.raised THEN Done("TransportError", NoRet) /\ UNCHANGED posts
                 ELSE IF jobs = <<>> THEN Done("IndexError", NoRet) /\ UNCHANGED posts
                 ELSE BuildJob([kind |-> "job", val |-> jobs[1]])
    /\ UNCHANGED <<state, state_last_updated, max_state_cache, now, op>>
    /\ UNCHANGED readers

Next ==
    \/ Tick
    \/ Call
    \/ Return
    \/ Jobs
    \/ State
    \/ LatestStep
    \/ IsComplete
    \/ NextStepIsComplete
    \/ NextStepIndex
    \/ CallBuildJob
    \/ Run

Spec == Init /\ [][Next]_vars

\* --------------------------- the `state` property, one line at a time
\* Lines 105-131 as the steps threads interleave at: the staleness test
\* (line 105), each pass of the loop (one GET and its handling, lines
\* 111-126, which touch only the thread's own job_data), the store
\* (line 128), the stamp (line 129) and the return (lines 106, 131).
\* The definition is cached already, so line 110 makes no request.

\* The reader threads of the race.
Racers == {1, 2}

\* The answers the remote gives during the race: a build that ran at the
\* older or the newer time, or a job that has not run.
RaceResponses ==
    {r \in Responses : ~r.raises /\ r.result /= "FAILURE" /\ r.status \in {200, 400}}

\* A thread entering the `state` property: about to evaluate line 105; its
\* locals are job_data and the answers it has got, its exit ret or outcome.
NewReader ==
    [pc |-> "check", job_data |-> <<>>, answers |-> <<>>, ret |-> <<>>,
     outcome |-> "none"]

\* The state an earlier cycle cached when every job had run once.
EarlierRun(jobs) ==
    [i \in 1..Len(jobs) |-> [job |-> jobs[i], timestamp |-> 1, result |-> "SUCCESS"]]

\* An instance with its definition cached, and with a state cache either
\* never filled or filled at time 0 by an earlier cycle; threads T are
\* about to read `state`.
ReadersInit(T) ==
    /\ pipeline \in {d \in Dicts : d.hasJobs}
    /\ \/ state = <<>> /\ state_last_updated = Epoch1983
       \/ state = EarlierRun(JobsOf(pipeline)) /\ state_last_updated = 0
    /\ max_state_cache \in 0..MaxTTL
    /\ now = 0
    /\ op = "none"
    /\ pc = "idle"
    /\ ret = NoRet
    /\ outcome = "none"
    /\ net = NoNet
    /\ posts = <<>>
    /\ readers = [t \in T |-> NewReader]

\* Line 105 (is_state_stale, line 94) and line 108; an empty job list
\* leaves the loop of line 110 at once.
ReaderCheck(t) ==
    /\ readers[t].pc = "check"
    /\ readers' =
          [readers EXCEPT ![t].pc =
              IF ~IsStateStale(state, state_last_updated, now, max_state_cache)
              THEN "hit"
              ELSE IF JobsOf(pipeline) = <<>> THEN "store" ELSE "poll"]
    /\ UNCHANGED <<pipeline, state, state_last_updated, max_state_cache, now,
                   op, pc, ret, outcome, net, posts>>

\* A variant of lines 108-128 that accumulates in the cache itself
\* (self._state = [] and self._state.append(job)).
ReaderPoll_InPlace(t, answers) ==
    /\ readers[t].pc = "poll"
    /\ \E response \in answers :
          LET r == readers[t]
              i == Len(r.answers) + 1
              jobs == JobsOf(pipeline)
              got == Append(r.answers, response)
              p == PollLoop(SubSeq(jobs, 1, i), got, i, r.job_data, <<>>)
          IN  /\ readers' =
                    [readers EXCEPT ![t] =
                        [r EXCEPT !.answers = got,
                                  !.job_data = p.job_data,
                                  !.pc = IF p.raised THEN "done"
                                         ELSE IF p.stopAt /= 0 \/ i = Len(jobs)
                                         THEN "store" ELSE "poll",
                                  !.outcome = IF p.raised THEN "TransportError" ELSE @]]
              /\ state' = p.job_data
    /\ UNCHANGED <<pipeline, state_last_updated, max_state_cache, now,
                   op, pc, ret, outcome, net, posts>>

\* Lines 110-126, one pass: the GET of the next job's last build, answered
\* from `answers`, and its handling, which is PollLoop on that one job.
\* The pass that raises ends the call; the pass that stops, or the last
\* one, goes on to line 128.
ReaderPoll(t, answers) ==
    /\ readers[t].pc = "poll"
    /\ \E response \in answers :
          LET r == readers[t]
              i == Len(r.answers) + 1
              jobs == JobsOf(pipeline)
              got == Append(r.answers, response)
              p == PollLoop(SubSeq(jobs, 1, i), got, i, r.job_data, <<>>)
          IN  readers' =
                 [readers EXCEPT ![t] =
                     [r EXCEPT !.answers = got,
                               !.job_data = p.job_data,
                               !.pc = IF p.raised THEN "done"
                                      ELSE IF p.stopAt /= 0 \/ i = Len(jobs)
                                      THEN "store" ELSE "poll",
                               !.outcome = IF p.raised THEN "TransportError" ELSE @]]
    /\ UNCHANGED <<pipeline, state, state_last_updated, max_state_cache, now,
                   op, pc, ret, outcome, net, posts>>

\* Line 128: self._state = job_data.
ReaderStore(t) ==
    /\ readers[t].pc = "store"
    /\ state' = readers[t].job_data
    /\ readers' = [readers EXCEPT ![t].pc = "stamp"]
    /\ UNCHANGED <<pipeline, state_last_updated, max_state_cache, now,
                   op, pc, ret, outcome, net, posts>>

\* Line 129: self.state_last_updated = datetime.now().
ReaderStamp(t) ==
    /\ readers[t].pc = "stamp"
    /\ state_last_updated' = now
    /\ readers' = [readers EXCEPT ![t].pc = "return"]
    /\ UNCHANGED <<pipeline, state, max_state_cache, now,
                   op, pc, ret, outcome, net, posts>>

\* Lines 106 and 131: return self._state, the cache as it is now.
ReaderReturn(t) ==
    /\ readers[t].pc \in {"hit", "return"}
    /\ readers' = [readers EXCEPT ![t].ret = state, ![t].outcome = "ok",
                                  ![t].pc = IF @ = "hit" THEN "done_hit" ELSE "done"]
    /\ UNCHANGED <<pipeline, state, state_last_updated, max_state_cache, now,
                   op, pc, ret, outcome, net, posts>>

\* What thread t does next inside the `state` property.
ReaderNext(t, answers) ==
    \/ ReaderCheck(t)
    \/ ReaderPoll(t, answers)
    \/ ReaderStore(t)
    \/ ReaderStamp(t)
    \/ ReaderReturn(t)

\* One thread reads `state` once, the remote answering anything.
PollInit == ReadersInit({1})

PollNext ==
    \/ Tick
    \/ ReaderNext(1, Responses)

PollSpec == PollInit /\ [][PollNext]_vars

\* Two threads read `state` once each, with no lock.  Each thread is
\* scheduled again and each of its requests returns, so a thread that can
\* take a step takes one in the end; the clock need not go on.
RaceInit == ReadersInit(Racers)

RaceNext ==
    \/ Tick
    \/ \E t \in Racers : ReaderNext(t, RaceResponses)

RaceSpec ==
    RaceInit /\ [][RaceNext]_vars
       /\ \A t \in Racers : WF_vars(ReaderNext(t, RaceResponses))

\* ------------------------------------------------------------- claims
\* The job list the cached definition gives (line 84, without a fetch).
CachedJobs == JobsOf(pipeline)

\* The time since the cached state was stamped (line 94's left-hand side).
Elapsed == now - state_last_updated

\* A read of `state` by the caller completes in this step.
StateReadReturns == pc = "state" /\ pc' = "done"

\* s is ordered by timestamp.
Monotonic(s) == \A i \in 1..(Len(s) - 1) : s[i + 1].timestamp >= s[i].timestamp

\* C1, as claimed: a read of `state` less than the TTL after the last state
\* fetch returns the cached sequence unchanged and makes no network call,
\* whatever the last fetch produced, an empty sequence included (here even
\* with a remote that answers every request).
C1_AnyCachedSequence ==
    [][(StateReadReturns /\ state_last_updated /= Epoch1983
          /\ Elapsed < max_state_cache /\ outcome' /= "TransportError")
       => (/\ outcome' = "ok"
           /\ ret' = [kind |-> "state", val |-> state]
           /\ state' = state
           /\ state_last_updated' = state_last_updated
           /\ net'.gets = <<>> /\ net'.defGets = 0)]_vars

\* C1, amended: a read of `state` less than the TTL after the last state
\* fetch returns the cached sequence unchanged and makes no network call,
\* provided the cached sequence is not empty.
C1_CacheHit ==
    [][(StateReadReturns /\ state_last_updated /= Epoch1983
          /\ Elapsed < max_state_cache /\ state /= <<>>)
       => (/\ outcome' = "ok"
           /\ ret' = [kind |-> "state", val |-> state]
           /\ state' = state
           /\ state_last_updated' = state_last_updated
           /\ net'.gets = <<>> /\ net'.defGets = 0)]_vars

\* A read within the TTL has returned a cached, non-empty sequence.
C1_Witness ==
    /\ op = "state" /\ pc = "done" /\ outcome = "ok"
    /\ ~net.stale /\ state /= <<>>
    /\ Elapsed < max_state_cache
    /\ ret.val = state

\* What C2 says of every completed rebuild, but for its count of GETs: the
\* jobs polled are a prefix of the definition, each once and in order, and
\* the sequence returned is the one this cycle built and cached.
C2_Rebuild ==
    /\ Len(net'.gets) <= Len(CachedJobs')
    /\ net'.gets = SubSeq(CachedJobs', 1, Len(net'.gets))
    /\ net'.rebuilt
    /\ ret' = [kind |-> "state", val |-> state']
    /\ state_last_updated' = now
    /\ \A i \in 1..Len(state') : \E k \in 1..Len(net'.gets) : state'[i].job = net'.gets[k]

\* C2, as claimed: a read of `state` more than the TTL after the last fetch
\* polls at most len(jobs) jobs, each once and in definition order, fewer
\* than len(jobs) exactly when the loop stopped on an out-of-range status,
\* and returns the sequence rebuilt in this cycle.
C2_FewerIffStopped ==
    [][(StateReadReturns /\ Elapsed > max_state_cache /\ outcome' = "ok")
       => (/\ C2_Rebuild
           /\ (Len(net'.gets) < Len(CachedJobs')) <=> (net'.stopAt /= 0))]_vars

\* C2, amended: ... fewer than len(jobs) exactly when the loop stopped on
\* an out-of-range status at a job before the last one: the GET that draws
\* the status counts, so a stop at the i-th job costs i GETs, and a stop
\* at the last job costs len(jobs).
C2_FewerIffStoppedBeforeLast ==
    [][(StateReadReturns /\ Elapsed > max_state_cache /\ outcome' = "ok")
       => (/\ C2_Rebuild
           /\ (Len(net'.gets) < Len(CachedJobs'))
                 <=> (net'.stopAt /= 0 /\ net'.stopAt < Len(CachedJobs'))
           /\ net'.stopAt /= 0 => Len(net'.gets) = net'.stopAt
           /\ net'.stopAt = 0 => Len(net'.gets) = Len(CachedJobs'))]_vars

\* A rebuild after the TTL ran out has stopped at the last job, having
\* polled every job.
C2_Witness ==
    /\ op = "state" /\ pc = "done" /\ outcome = "ok"
    /\ net.rebuilt /\ state_last_updated = now /\ now > max_state_cache
    /\ Len(CachedJobs) > 1 /\ net.stopAt = Len(CachedJobs) /\ Len(net.gets) = Len(CachedJobs)
    /\ state /= <<>>

\* C3: every state sequence cached or returned is ordered by timestamp.
C3_MonotonicTimestamps ==
    /\ Monotonic(state)
    /\ ret.kind = "state" => Monotonic(ret.val)

\* A rebuild has dropped a record older than the one before it and kept a
\* later one.
C3_Witness ==
    /\ op = "state" /\ pc = "done" /\ outcome = "ok"
    /\ net.rebuilt /\ net.stopAt = 0
    /\ Len(state) >= 2 /\ Len(state) < Len(net.gets)
    /\ ret.val = state

\* C4: the state is never longer than the job list, and a polling cycle
\* that stops at a job leaves no record of, and makes no GET for, any
\* later job.
C4_BoundedTruncated ==
    /\ Len(state) <= Len(CachedJobs)
    /\ (net.rebuilt /\ net.stopAt /= 0)
          => /\ \A i \in 1..Len(state) : state[i].job <= net.stopAt
             /\ \A k \in 1..Len(net.gets) : net.gets[k] <= net.stopAt

\* A polling cycle has stopped before the last job, after a record.
C4_Witness ==
    /\ net.rebuilt /\ net.stopAt /= 0 /\ net.stopAt < Len(CachedJobs)
    /\ state /= <<>>

\* C5, as claimed: the i-th entry of every state sequence is the record
\* polled from the i-th job of the definition.
C5_PrefixOfDefinition ==
    \A i \in 1..Len(state) : i <= Len(CachedJobs) /\ state[i].job = CachedJobs[i]

\* The pipeline has run to the end: every job has a record and the last
\* record is a SUCCESS.
CompleteOn(s, js) == Len(s) = Len(js) /\ s /= <<>> /\ Last(s).result = "SUCCESS"

\* C6, as claimed: is_complete never fails, and returns true exactly when
\* the state is as long as the job list and its last result is SUCCESS.
C6_IsCompleteTotal ==
    (op = "is_complete" /\ pc = "done" /\ outcome /= "TransportError")
       => (outcome = "ok" /\ ret = [kind |-> "bool", val |-> CompleteOn(state, CachedJobs)])

\* C7, as claimed: once a step has run, is_waiting_manual_trigger returns
\* true exactly when the state cached at its return is not complete and
\* ends in a SUCCESS.
C7_WaitingOnOneState ==
    (op = "is_waiting_manual_trigger" /\ pc = "done" /\ outcome = "ok" /\ state /= <<>>)
       => ret = [kind |-> "bool",
                 val |-> ~CompleteOn(state, CachedJobs) /\ Last(state).result = "SUCCESS"]

\* C8, as claimed: next_step never fails; it returns the job at index
\* len(state), and None when the pipeline is complete or has no such job.
C8_NextStepTotal ==
    (op = "next_step" /\ pc = "done" /\ outcome /= "TransportError")
       => (/\ outcome = "ok"
           /\ ret = IF CompleteOn(state, CachedJobs) \/ Len(state) >= Len(CachedJobs) THEN NoRet
                    ELSE [kind |-> "job", val |-> CachedJobs[Len(state) + 1]])

\* trigger_manual_step's is_waiting_manual_trigger finds, in this step, a
\* pipeline that is not waiting: complete, or with a latest step that is
\* not a SUCCESS.
FindsNotWaiting ==
    /\ op = "trigger_manual_step"
    /\ pc' /= pc
    /\ outcome' /= "TransportError"
    /\ \/ pc = "is_complete" /\ CompleteOn(state', CachedJobs')
       \/ pc = "latest_step" /\ state' /= <<>> /\ Last(state').result /= "SUCCESS"

\* C9: when trigger_manual_step finds the pipeline not waiting on a manual
\* trigger, it returns None without an error and without a POST.
C9_NoPostWhenNotWaiting ==
    [][FindsNotWaiting
       => (pc' = "done" /\ outcome' = "ok" /\ ret' = NoRet /\ posts' = <<>>)]_vars

\* trigger_manual_step has returned from a complete pipeline.
C9_Witness ==
    /\ op = "trigger_manual_step" /\ pc = "done" /\ outcome = "ok"
    /\ CompleteOn(state, CachedJobs) /\ net.rebuilt
    /\ posts = <<>>

\* C10, as claimed: once trigger_manual_step has seen
\* is_waiting_manual_trigger true, it makes exactly one POST, to the build
\* url of a job of the definition, and never hands None to build_job
\* (here even with a remote that answers every GET).
C10_OnePostWhenWaiting ==
    [][(/\ op = "trigger_manual_step"
        /\ pc \in {"next_is_complete", "next_index"}
        /\ pc' = "done"
        /\ ~(outcome' = "TransportError" /\ posts' = <<>>))
       => (/\ Len(posts') = 1
           /\ \E i \in 1..Len(CachedJobs') : posts'[1] = CachedJobs'[i]
           /\ outcome' /= "TypeError")]_vars

\* A definition GET has returned and been parsed at some time before: the
\* cached definition is populated, or a state rebuild (which reads `jobs`
\* first, line 110) has completed and stamped the cache.
DefinitionFetched == pipeline.nonempty \/ state_last_updated /= Epoch1983

\* C11, as claimed: once a GET of the pipeline definition has returned and
\* been parsed, no later step of any operation issues another definition
\* GET, and the cached definition never changes.
C11_DefinitionFetchedOnce ==
    [][(DefinitionFetched /\ pc' /= pc)
       => (net'.defGets = 0 /\ pipeline' = pipeline)]_vars

\* C12: run() reads no state; with a job list that is not empty it makes
\* exactly one POST, to the build url of the first job of the definition;
\* with an empty job list it fails and makes no POST.
C12_RunPostsFirstJob ==
    [][(pc = "run" /\ pc' = "done")
       => (/\ ~net'.stale /\ net'.gets = <<>>
           /\ state' = state /\ state_last_updated' = state_last_updated
           /\ IF CachedJobs' = <<>>
              THEN /\ posts' = <<>>
                   /\ outcome' \in {"IndexError", "TransportError"}
                   /\ outcome' = "TransportError" => net'.defGets = 1
              ELSE /\ posts' = <<CachedJobs'[1]>>
                   /\ outcome' \in PostOutcomes
                   /\ outcome' = "ok"
                         => ret' = [kind |-> "response", val |-> CachedJobs'[1]])]_vars

\* run() has triggered the first of several jobs, over a cached state that
\* names a later step.
C12_Witness ==
    /\ op = "run" /\ pc = "done" /\ outcome = "ok"
    /\ Len(CachedJobs) > 1 /\ posts = <<CachedJobs[1]>>
    /\ state /= <<>>

\* The one reader of PollSpec, and the answers it got in its cycle.
Reader == readers[1]
Answers == Reader.answers

\* The first k answers are parsed records with in-range statuses,
\* non-decreasing timestamps and result SUCCESS, and answer k + 1 is a 404.
PartialRun(a, k) ==
    /\ Len(a) = k + 1
    /\ \A i \in 1..k : /\ ~a[i].raises
                       /\ a[i].status >= 200 /\ a[i].status < 400
                       /\ a[i].result = "SUCCESS"
                       /\ i > 1 => a[i].timestamp >= a[i - 1].timestamp
    /\ ~a[k + 1].raises /\ a[k + 1].status = 404

\* C13: when the first k of n jobs (1 <= k < n) answer in-range statuses
\* with non-decreasing timestamps and SUCCESS and job k + 1 answers 404,
\* the rebuilt state has exactly k entries, is_complete is false on it,
\* is_waiting_manual_trigger is true on it and next_step is job k + 1.
C13_PartialRun ==
    \A k \in 1..(Len(CachedJobs) - 1) :
       (Reader.pc = "done" /\ Reader.outcome = "ok" /\ PartialRun(Answers, k))
          => (/\ Reader.ret = state
              /\ Len(state) = k
              /\ \A i \in 1..k : state[i].job = CachedJobs[i]
              /\ IsCompleteOn(state, CachedJobs) = [outcome |-> "ok", val |-> FALSE]
              /\ LatestOf(state).val.result = "SUCCESS"
              /\ JobAt(CachedJobs, state) = [kind |-> "job", val |-> CachedJobs[k + 1]])

\* Two of three jobs have run, the second after the first, and the third
\* answers 404.
C13_Witness ==
    /\ Len(CachedJobs) > 2
    /\ Reader.pc = "done" /\ Reader.outcome = "ok" /\ PartialRun(Answers, 2)
    /\ Answers[2].timestamp > Answers[1].timestamp
    /\ Len(state) = 2

\* C14: when the job list is not empty and latest_step reads an empty
\* state, is_waiting_manual_trigger ends in a TypeError, not a boolean,
\* and so does trigger_manual_step, without a POST.
C14_FaultsBeforeFirstRun ==
    [][(/\ op \in {"is_waiting_manual_trigger", "trigger_manual_step"}
        /\ pc = "latest_step" /\ pc' /= pc
        /\ outcome' /= "TransportError"
        /\ CachedJobs' /= <<>> /\ state' = <<>>)
       => (/\ pc' = "done" /\ outcome' = "TypeError"
           /\ ret' = NoRet
           /\ posts' = <<>>)]_vars

\* trigger_manual_step has failed on a pipeline none of whose jobs has run.
C14_Witness ==
    /\ op = "trigger_manual_step" /\ pc = "done" /\ outcome = "TypeError"
    /\ CachedJobs /= <<>> /\ state = <<>> /\ net.rebuilt /\ net.stopAt = 1
    /\ posts = <<>>

\* The reader has just made a GET that returned: the answer it got.
Polled == Reader.pc = "poll" /\ Reader' /= Reader /\ ~Last(Answers').raises

\* C15: an answer with a status below 200 or from 400 up ends the loop
\* without an error and leaves the accumulator as it was; an answer with a
\* status in [200, 400), a 3xx included, does not end the loop; then the
\* accumulator replaces the cached state whole, the stamp is set to the
\* current time and the read returns the cache.
C15_StopIsNotAnError ==
    [][/\ (Polled /\ (Last(Answers').status < 200 \/ Last(Answers').status >= 400))
             => (/\ Reader'.pc = "store" /\ Reader'.outcome = "none"
                 /\ Reader'.job_data = Reader.job_data)
       /\ (Polled /\ Last(Answers').status >= 200 /\ Last(Answers').status < 400)
             => (/\ Reader'.pc = IF Len(Answers') < Len(CachedJobs) THEN "poll" ELSE "store"
                 /\ Reader'.outcome = "none")
       /\ (Reader.pc = "store" /\ Reader'.pc /= "store")
             => (Reader'.pc = "stamp" /\ state' = Reader.job_data)
       /\ (Reader.pc = "stamp" /\ Reader'.pc /= "stamp")
             => (Reader'.pc = "return" /\ state_last_updated' = now /\ state' = state)
       /\ (Reader.pc = "return" /\ Reader'.pc /= "return")
             => (/\ Reader'.pc = "done" /\ Reader'.outcome = "ok"
                 /\ Reader'.ret = Reader.job_data)]_vars

\* After a 3xx answer for the first of three jobs and a 199 for the
\* second, the one record accumulated has replaced the three an earlier
\* cycle had cached at time 0.
C15_Witness ==
    /\ Len(CachedJobs) > 2 /\ Len(Answers) = 2
    /\ Answers[1].status = 399 /\ Answers[1].timestamp = 2 /\ Answers[2].status = 199
    /\ Reader.pc = "stamp" /\ state_last_updated = 0
    /\ Len(state) = 1 /\ state[1].timestamp = 2

\* The timestamp of the last record accumulated, 0 when there is none.
LastJobTime(job_data) == IF job_data = <<>> THEN 0 ELSE Last(job_data).timestamp

\* C16: a record polled during a rebuild is appended if its timestamp is
\* at least that of the last record accumulated (0 when none) and is
\* dropped otherwise; dropped or not, the loop goes on to the next job.
C16_MonotonicGuard ==
    [][(Polled /\ Last(Answers').status >= 200 /\ Last(Answers').status < 400)
       => (/\ Reader'.job_data =
                 IF Last(Answers').timestamp >= LastJobTime(Reader.job_data)
                 THEN Append(Reader.job_data,
                             [job |-> CachedJobs[Len(Answers')],
                              timestamp |-> Last(Answers').timestamp,
                              result |-> Last(Answers').result])
                 ELSE Reader.job_data
           /\ Len(Answers') < Len(CachedJobs) => Reader'.pc = "poll")]_vars

\* The second of three records was older than the first and was dropped;
\* the third, polled all the same, was appended.
C16_Witness ==
    /\ Len(CachedJobs) > 2 /\ Len(Answers) = 3 /\ Reader.pc = "done"
    /\ \A i \in 1..3 : ~Answers[i].raises /\ Answers[i].status = 200
    /\ Answers[2].timestamp < Answers[1].timestamp
    /\ Len(state) = 2 /\ state[1].job = CachedJobs[1] /\ state[2].job = CachedJobs[3]
    /\ state[2].timestamp = state[1].timestamp

\* A call of build_job or of run ends in this step.
TriggerReturns == pc \in {"build_job", "run"} /\ pc' = "done"

\* trigger_manual_step makes its POST in this step, its reads of `jobs`
\* and `state` having been served from the caches.
ManualPostOnHit ==
    /\ op = "trigger_manual_step" /\ posts' /= posts
    /\ ~net'.stale /\ net'.defGets = 0

RebuildRaises == pc' /= pc /\ net'.stale /\ ~net'.rebuilt

\* C18: a GET that raises during a rebuild ends the call in that
\* exception and leaves the cached state and its stamp as they were, so
\* the cache is as stale as it was before the call.
C18_FailedRebuildStoresNothing ==
    [][RebuildRaises
       => (/\ pc' = "done" /\ outcome' = "TransportError" /\ ret' = NoRet
           /\ state' = state
           /\ state_last_updated' = state_last_updated
           /\ IsStateStale(state', state_last_updated', now', max_state_cache'))]_vars

\* A read of `state` has failed at the GET of the second job, after the
\* first job's record was accumulated; the cache still holds the records
\* of an earlier cycle, older than the TTL.
C18_Witness ==
    /\ op = "state" /\ pc = "done" /\ outcome = "TransportError"
    /\ net.stale /\ ~net.rebuilt /\ Len(net.gets) = 2
    /\ Len(state) > 1 /\ Elapsed > max_state_cache

\* The cached state is whole: it is the state the cache held when the
\* threads arrived, or the accumulator of one reader whose loop has ended.
WholeState(s) ==
    \/ s = <<>> /\ state_last_updated = Epoch1983
    \/ s = EarlierRun(CachedJobs)
    \/ \E t \in Racers : /\ readers[t].pc \in {"stamp", "return", "done"}
                         /\ s = readers[t].job_data

\* A thread has read, or been returned, a cached state that is not whole.
PartialReplaceObserved ==
    \/ ~WholeState(state)
    \/ \E t \in Racers : readers[t].outcome = "ok" /\ ~WholeState(readers[t].ret)

\* Both threads have found the cache stale and are in a polling cycle.
BothPolling == \A t \in Racers : readers[t].answers /= <<>>

\* C19, as claimed: when two threads read a stale `state` without a lock
\* and both run a polling cycle, a reader comes to observe a cached state
\* that is a partial replace, not the whole accumulator of one cycle.
C19_PartialReplace == BothPolling ~> PartialReplaceObserved

\* C19, amended: the cached state, and every sequence a reader is
\* returned, is at all times the whole accumulator of one polling cycle
\* (or the state cached before the race), though the cycle may be the
\* other thread's.
C19_WholeAccumulator == ~PartialReplaceObserved

\* Both threads found the cache stale and polled every job, getting
\* different answers, and the first thread was returned the accumulator
\* of the second, the cache being stamped by the first.
C19_Witness ==
    /\ \A t \in Racers : /\ readers[t].pc = "done"
                         /\ Len(readers[t].answers) = Len(CachedJobs)
    /\ Len(CachedJobs) > 1
    /\ readers[1].job_data /= readers[2].job_data
    /\ readers[1].ret = readers[2].job_data
    /\ readers[2].ret = readers[2].job_data

\* C20, as claimed: whenever is_complete returns true, every job of the
\* definition has its record in the state and every record is a SUCCESS.
C20_CompleteMeansAllSucceeded ==
    (op = "is_complete" /\ pc = "done" /\ outcome = "ok" /\ ret.val = TRUE)
       => (/\ Len(state) = Len(CachedJobs)
           /\ \A i \in 1..Len(state) : /\ state[i].job = CachedJobs[i]
                                       /\ state[i].result = "SUCCESS")

====
